---- MODULE Spec2Model ----
(***************************************************************************)
(* Campus safety server: session authentication, role/department access    *)
(* control, alert life cycle, anonymous chat, admin user management and    *)
(* the in-memory WebSocket registry used for notification fan-out.         *)
(*                                                                         *)
(* Every HTTP handler of server/routes.ts is an operator from the          *)
(* persisted tables and the request to a Response: the status code, the    *)
(* tables as the handler leaves them, the rows it returns and the          *)
(* WebSocket sends it makes.  The action of a handler applies that         *)
(* operator to some request.  The storage layer (server/storage.ts) and    *)
(* the constraints of shared/schema.ts are operators over the tables.      *)
(*                                                                         *)
(* Columns no handler reads to take a decision (fullName, phoneNumber,     *)
(* lastLogin, coordinates, situationData, createdAt of users and alerts)   *)
(* are left out of the rows.                                               *)
(***************************************************************************)
EXTENDS Integers, Sequences, FiniteSets, TLC

\* ---------------------------------------------------------------- bounds
MaxUsers    == 3    \* user ids are 1..MaxUsers
NumSessions == 2    \* HTTP sessions (cookies) in the session store
MaxAlerts   == 1    \* rows of the alerts table
MaxConns    == 1    \* WebSocket connections

UserIds    == 1..MaxUsers
AlertIds   == 1..MaxAlerts
Conns      == 1..MaxConns

\* ------------------------------------------------------- schema constants
Roles            == {"student", "staff", "admin"}
Departments      == {"medical", "security", "guidance", "none"}
AlertDepartments == {"medical", "security"}
ChatDepartments  == {"medical", "security", "guidance"}
AlertStatuses    == {"pending", "acknowledged", "dispatched", "resolved"}

Null    == 0          \* SQL NULL / JS undefined for ids and timestamps
Absent  == "absent"   \* a field the request body does not carry
NoNotes == "null"     \* the responseNotes column holding NULL

\* ------------------------------------------------------------------ state
VARIABLES
    users,        \* users table: id -> row, DOMAIN = the stored ids
    sessions,     \* session store: sid -> userId, or Null
    alerts,       \* alerts table: sequence of rows, id = index
    chatSessions, \* chat_sessions table: sequence of rows, id = index
    messages,     \* messages table: sequence of rows, id = index
    auditLogs,    \* audit_logs table: sequence of rows
    clients,      \* registry Map<userId, Set<WebSocket>>: DOMAIN = its keys
    readyState,   \* readyState of every socket
    now,          \* the clock read by new Date() and defaultNow()
    upgrade,      \* socket -> userId its pending upgrade found, or Null
    admitted,     \* sockets whose upgrade has found its user
    posting,      \* messages inserted whose session is not yet touched
    creating,     \* user creations between their email check and answer
    patching,     \* status updates between their checks and their UPDATE
    last          \* the route handled last and the status it answered

tables == <<users, sessions, alerts, chatSessions, messages, auditLogs>>
vars == <<users, sessions, alerts, chatSessions, messages, auditLogs,
          clients, readyState, now, upgrade, admitted, posting, creating,
          patching, last>>

\* ------------------------------------------------------------- seed users
Hash(p) == <<"bcrypt", p>>

User(email, pw, role, department) ==
    [email |-> email, password |-> Hash(pw), role |-> role,
     department |-> department, isActive |-> TRUE]

\* One account of each kind the seed script creates; user k has email k and
\* password k.
defaultUsers ==
    (1 :> User(1, 1, "student", "none")) @@
    (2 :> User(2, 2, "staff", "medical")) @@
    (3 :> User(3, 3, "admin", "none"))

\* ---------------------------------------------------------------- storage
getUser(id) == IF id \in DOMAIN users THEN {users[id]} ELSE {}

getUserByEmail(email) == {u \in DOMAIN users : users[u].email = email}

getAlert(id) == IF id \in DOMAIN alerts THEN {alerts[id]} ELSE {}

getAlertsByUser(userId) ==
    {a \in DOMAIN alerts : alerts[a].userId = userId}

getAlertsByDepartment(department) ==
    {a \in DOMAIN alerts : alerts[a].department = department}

getChatSession(id) ==
    IF id \in DOMAIN chatSessions THEN {chatSessions[id]} ELSE {}

getChatSessionsByUser(userId) ==
    {s \in DOMAIN chatSessions : chatSessions[s].userId = userId}

getChatSessionsByDepartment(department) ==
    {s \in DOMAIN chatSessions : chatSessions[s].department = department}

getMessagesBySession(sessionId) ==
    {m \in DOMAIN messages : messages[m].sessionId = sessionId}

\* REFERENCES users(id) without ON DELETE: rows that keep a user from being
\* deleted.
referenced(userId) ==
    \/ \E a \in DOMAIN alerts :
            alerts[a].userId = userId \/ alerts[a].acknowledgedBy = userId
    \/ \E s \in DOMAIN chatSessions : chatSessions[s].userId = userId
    \/ \E m \in DOMAIN messages : messages[m].senderId = userId
    \/ \E l \in DOMAIN auditLogs : auditLogs[l].userId = userId

\* ---------------------------------------------------------------- fan-out
NoEvent == [type |-> "none", id |-> Null, payload |-> <<>>]

NoSend == [event |-> NoEvent, count |-> [c \in DOMAIN readyState |-> 0]]

\* broadcastToUser without the readyState test.
broadcastToUser_anyState(userId) ==
    IF userId \in DOMAIN clients THEN clients[userId] ELSE {}

\* The registry after the 'close' handler that keeps an emptied set.
unregisterConnection_keepEmpty(userId, c) ==
    [clients EXCEPT ![userId] = @ \ {c}]

\* The registry after ws.on('close') of socket c of userId.
unregisterConnection(userId, c) ==
    IF clients[userId] \ {c} = {}
    THEN [u \in DOMAIN clients \ {userId} |-> clients[u]]
    ELSE [clients EXCEPT ![userId] = @ \ {c}]

\* The sockets broadcastToUser(userId, message) calls send on.
broadcastToUser(userId) ==
    IF userId \in DOMAIN clients
    THEN {c \in clients[userId] : readyState[c] = "OPEN"}
    ELSE {}

\* The event sent to every open socket of the registry (broadcastToAll)
\* in place of the recipients' sockets.
broadcast_toAll(recipients, event) ==
    [event |-> event,
     count |-> [c \in DOMAIN readyState |->
         IF readyState[c] = "OPEN"
            /\ c \in UNION {clients[u] : u \in DOMAIN clients}
         THEN 1 ELSE 0]]

\* One broadcastToUser call per recipient of the list: the event, and how
\* often each socket is sent it.
broadcast(recipients, event) ==
    [event |-> event,
     count |-> [c \in DOMAIN readyState |->
         Cardinality({i \in DOMAIN recipients :
                         c \in broadcastToUser(recipients[i])})]]

\* getAllUsers().filter(u => u.role === "staff" && u.department === d)
staffUsers(department) ==
    {u \in DOMAIN users :
        users[u].role = "staff" /\ users[u].department = department}

RECURSIVE SetToSeq(_)
SetToSeq(S) ==
    IF S = {} THEN <<>>
    ELSE LET x == CHOOSE y \in S : \A z \in S : y <= z
         IN <<x>> \o SetToSeq(S \ {x})

\* The sends a fan-out can have made when it stops early: lookup or send
\* throws somewhere between no send and the last one.
Deliveries(sent) ==
    {d \in [DOMAIN readyState -> 0..2] :
        \A c \in DOMAIN readyState : d[c] <= sent.count[c]}

\* -------------------------------------------------------------- responses
\* What a handler answers and leaves behind, starting from "nothing changed".
Response(code, msg) ==
    [code |-> code, msg |-> msg,
     users |-> users, sessions |-> sessions, alerts |-> alerts,
     chatSessions |-> chatSessions, messages |-> messages,
     auditLogs |-> auditLogs, sent |-> NoSend, out |-> {}]

\* A fan-out whose exception reaches the catch of the handler: the rows
\* stay written, the request is answered 400.
rethrowBroadcastError(r, delivered) ==
    IF delivered = r.sent.count THEN r
    ELSE [r EXCEPT !.code = 400, !.msg = "Failed", !.out = {},
                   !.sent = [event |-> r.sent.event, count |-> delivered]]

\* try { fan-out } catch (broadcastError) { console.error(...) }: the answer
\* r of a handler whose fan-out made the sends `delivered` only.
catchBroadcastError(r, delivered) ==
    [r EXCEPT !.sent = [event |-> r.sent.event, count |-> delivered]]

\* ------------------------------------------------------------ middleware
\* requireAuth calling next() for every request.
requireAuth_open(sid) == 200

requireAuth(sid) ==
    IF sessions[sid] = Null THEN 401 ELSE 200

\* requireRole without the roles.includes(user.role) test.
requireRole_anyRole(sid, roles) ==
    IF sessions[sid] = Null THEN 401
    ELSE IF getUser(sessions[sid]) = {} THEN 403 ELSE 200

requireRole(sid, roles) ==
    IF sessions[sid] = Null THEN 401
    ELSE IF getUser(sessions[sid]) = {}
            \/ users[sessions[sid]].role \notin roles
         THEN 403
         ELSE 200

Unauthorized == Response(401, "Unauthorized")
Forbidden    == Response(403, "Forbidden")

\* The answer of the gate when it does not call next().
Gate(code) == IF code = 401 THEN Unauthorized ELSE Forbidden

\* ------------------------------------------------------ /api/auth routes
\* The addresses requests carry: those of the seeded accounts and of every
\* stored account.
Emails    == (1..MaxUsers) \cup {users[u].email : u \in DOMAIN users}
Passwords == 1..MaxUsers

\* login without the isActive test.
login_inactiveToo(sid, email, password) ==
    LET found == getUserByEmail(email) IN
    IF email = Null \/ password = Null
    THEN Response(400, "Validation")
    ELSE IF found = {}
    THEN Response(401, "Invalid email or password")
    ELSE LET id == CHOOSE u \in found : TRUE IN
         IF users[id].password # Hash(password)
         THEN Response(401, "Invalid email or password")
         ELSE [Response(200, "user") EXCEPT
                  !.sessions = [sessions EXCEPT ![sid] = id],
                  !.out = {users[id]}]

\* login that stores the userId as soon as the address is known.
login_setsEarly(sid, email, password) ==
    LET found == getUserByEmail(email) IN
    IF email = Null \/ password = Null
    THEN Response(400, "Validation")
    ELSE IF found = {}
    THEN Response(401, "Invalid email or password")
    ELSE LET id == CHOOSE u \in found : TRUE
             set == [sessions EXCEPT ![sid] = id]
         IN IF users[id].password # Hash(password)
            THEN [Response(401, "Invalid email or password") EXCEPT
                     !.sessions = set]
            ELSE IF ~users[id].isActive
            THEN [Response(403, "Account is inactive") EXCEPT
                     !.sessions = set]
            ELSE [Response(200, "user") EXCEPT
                     !.sessions = set, !.out = {users[id]}]

\* POST /api/auth/login; email or password Null: loginSchema rejects the body.
login(sid, email, password) ==
    LET found == getUserByEmail(email) IN
    IF email = Null \/ password = Null
    THEN Response(400, "Validation")
    ELSE IF found = {}
    THEN Response(401, "Invalid email or password")
    ELSE LET id == CHOOSE u \in found : TRUE IN
         IF users[id].password # Hash(password)
         THEN Response(401, "Invalid email or password")
         ELSE IF ~users[id].isActive
         THEN Response(403, "Account is inactive")
         ELSE [Response(200, "user") EXCEPT
                  !.sessions = [sessions EXCEPT ![sid] = id],
                  !.out = {users[id]}]

\* POST /api/auth/logout: req.session.destroy
logout(sid) ==
    [Response(200, "Logged out successfully") EXCEPT
        !.sessions = [sessions EXCEPT ![sid] = Null]]

\* GET /api/auth/me
me(sid) ==
    IF sessions[sid] = Null
    THEN Response(401, "Not authenticated")
    ELSE IF getUser(sessions[sid]) = {}
    THEN [Response(401, "User not found") EXCEPT
             !.sessions = [sessions EXCEPT ![sid] = Null]]
    ELSE [Response(200, "user") EXCEPT !.out = getUser(sessions[sid])]

\* ------------------------------------------------------ POST /api/alerts
AbsentId == -1       \* the body carries no userId
EmptyId  == 0        \* the "" the client sends as userId

AlertBodies ==
    [userId : {AbsentId, EmptyId} \cup UserIds,
     department : AlertDepartments \cup {"guidance"},
     status : AlertStatuses \cup {Absent},
     responseNotes : {Absent, "note"}]

\* createInsertSchema(alerts).omit({id, createdAt, acknowledgedAt,
\* dispatchedAt, resolvedAt, acknowledgedBy}): userId and department are
\* required, status and responseNotes optional.
insertAlertSchema(body) ==
    /\ body.userId # AbsentId
    /\ body.department \in AlertDepartments
    /\ body.status \in AlertStatuses \cup {Absent}

\* createAlert keeping the userId of the payload when it names a user.
createAlert_payloadOwner(body, userId) ==
    [userId |-> IF body.userId \in UserIds THEN body.userId ELSE userId,
     department |-> body.department,
     status |-> IF body.status = Absent THEN "pending" ELSE body.status,
     responseNotes |-> IF body.responseNotes = Absent THEN NoNotes
                       ELSE body.responseNotes,
     acknowledgedAt |-> Null, dispatchedAt |-> Null, resolvedAt |-> Null,
     acknowledgedBy |-> Null]

\* The row storage.createAlert({...data, userId}) inserts and returns.
createAlert(body, userId) ==
    [userId |-> userId,
     department |-> body.department,
     status |-> IF body.status = Absent THEN "pending" ELSE body.status,
     responseNotes |-> IF body.responseNotes = Absent THEN NoNotes
                       ELSE body.responseNotes,
     acknowledgedAt |-> Null, dispatchedAt |-> Null, resolvedAt |-> Null,
     acknowledgedBy |-> Null]

postAlert(sid, body) ==
    IF requireAuth(sid) # 200 THEN Unauthorized
    ELSE IF ~insertAlertSchema(body) THEN Response(400, "Validation")
    ELSE IF getUser(sessions[sid]) = {}
    THEN \* alerts.user_id REFERENCES users(id): the insert throws
         Response(400, "ForeignKey")
    ELSE LET alert == createAlert(body, sessions[sid])
             id == Len(alerts) + 1
         IN [Response(200, "alert") EXCEPT
                !.alerts = Append(alerts, alert),
                !.out = {alert},
                !.sent = broadcast(SetToSeq(staffUsers(alert.department)),
                            [type |-> "new_alert", id |-> id,
                             payload |-> alert])]

\* --------------------------------------------------- GET /api/alerts/...
getMyAlerts(sid) ==
    IF requireAuth(sid) # 200 THEN Unauthorized
    ELSE [Response(200, "alerts") EXCEPT
             !.out = {alerts[a] : a \in getAlertsByUser(sessions[sid])}]

\* The department check left out.
staffOfOtherDepartment_off(user, department) == FALSE

\* user.role === "staff" && user.department !== department
staffOfOtherDepartment(user, department) ==
    user.role = "staff" /\ user.department # department

getDepartmentAlerts(sid, department) ==
    LET gate == requireRole(sid, {"staff", "admin"}) IN
    IF gate # 200 THEN Gate(gate)
    ELSE LET user == users[sessions[sid]] IN
         IF staffOfOtherDepartment(user, department)
         THEN Response(403, "Forbidden department")
         ELSE [Response(200, "alerts") EXCEPT
                  !.out = {alerts[a] : a \in getAlertsByDepartment(department)}]

\* ------------------------------------------------- PATCH /api/alerts/:id
validTransitions ==
    [pending |-> {"acknowledged", "dispatched"},
     acknowledged |-> {"dispatched"},
     dispatched |-> {"resolved"}]

\* The condition of the 400 "Cannot transition from ... to ..." return.
rejectsTransition(from, to) ==
    /\ from # "pending"
    /\ from \in DOMAIN validTransitions
    /\ to \notin validTransitions[from]

UpdateBodies ==
    [status : AlertStatuses \cup {Absent},
     responseNotes : {Absent, "", "note"}]

updateAlertStatusSchema(body) == body.status \in AlertStatuses

\* updateAlert writing the status and the notes only.
updateAlert_noStamp(row, body, userId) ==
    [row EXCEPT !.status = body.status,
                !.responseNotes = IF body.responseNotes \notin {Absent, ""}
                                  THEN body.responseNotes ELSE @]

\* storage.updateAlert(id, updateData): the stored row after the UPDATE.
updateAlert(row, body, userId) ==
    LET noted == IF body.responseNotes \notin {Absent, ""}
                 THEN [row EXCEPT !.responseNotes = body.responseNotes]
                 ELSE row
        set == [noted EXCEPT !.status = body.status]
    IN
    IF body.status = "acknowledged"
    THEN [set EXCEPT !.acknowledgedAt = now, !.acknowledgedBy = userId]
    ELSE IF body.status = "dispatched"
    THEN [set EXCEPT !.dispatchedAt = now]
    ELSE IF body.status = "resolved"
    THEN [set EXCEPT !.resolvedAt = now]
    ELSE set

patchAlert(sid, id, body) ==
    LET gate == requireRole(sid, {"staff", "admin"}) IN
    IF gate # 200 THEN Gate(gate)
    ELSE IF ~updateAlertStatusSchema(body) THEN Response(400, "Validation")
    ELSE IF getAlert(id) = {} THEN Response(404, "Alert not found")
    ELSE LET user == users[sessions[sid]]
             alert == alerts[id]
         IN
         IF staffOfOtherDepartment(user, alert.department)
         THEN Response(403, "Forbidden department")
         ELSE IF rejectsTransition(alert.status, body.status)
         THEN Response(400, "Cannot transition")
         ELSE LET updated == updateAlert(alert, body, sessions[sid]) IN
              [Response(200, "alert") EXCEPT
                  !.alerts = [alerts EXCEPT ![id] = updated],
                  !.out = {updated},
                  !.sent = broadcast(
                      IF alert.userId # Null THEN <<alert.userId>> ELSE <<>>,
                      [type |-> "alert_updated", id |-> id,
                       payload |-> body.status])]

\* ------------------------------------------------ POST /api/auth/register
\* An id no row, session or registry key mentions: gen_random_uuid().
mentionedIds ==
    DOMAIN users \cup DOMAIN clients
    \cup {sessions[s] : s \in DOMAIN sessions}
    \cup {alerts[a].userId : a \in DOMAIN alerts}
    \cup {auditLogs[l].targetId : l \in DOMAIN auditLogs}

freshUserId ==
    1 + (CHOOSE m \in mentionedIds \cup {0} :
            \A n \in mentionedIds \cup {0} : n <= m)

\* body.email Null: registerSchema rejects the body (format, domain,
\* password length, full name).
register(sid, email, password) ==
    IF email = Null \/ password = Null
    THEN Response(400, "Validation")
    ELSE IF getUserByEmail(email) # {}
    THEN Response(400, "Email already registered")
    ELSE LET id == freshUserId
             user == User(email, password, "student", "none")
         IN [Response(200, "user") EXCEPT
                !.users = users @@ (id :> user),
                !.sessions = [sessions EXCEPT ![sid] = id],
                !.out = {user}]

\* ----------------------------------------------------- /api/chats routes
MaxChats    == 1    \* rows of the chat_sessions table
MaxMessages == 1    \* rows of the messages table
MaxHandles  == 1    \* values of the random anonymous suffix

ChatIds    == 1..MaxChats
MessageIds == 1..MaxMessages
Handles    == 1..MaxHandles

ChatBodies ==
    [userId : {AbsentId, EmptyId},
     department : ChatDepartments \cup {"none"},
     anonymousId : {Absent, ""},
     status : {Absent}]

\* createInsertSchema(chatSessions).omit({id, createdAt, closedAt,
\* lastMessageAt}): userId, department and anonymousId are required.
insertChatSessionSchema(body) ==
    /\ body.userId # AbsentId
    /\ body.department \in ChatDepartments
    /\ body.anonymousId # Absent

createChatSession(body, userId, anonymousId) ==
    [userId |-> userId,
     department |-> body.department,
     anonymousId |-> anonymousId,
     status |-> IF body.status = Absent THEN "active" ELSE body.status,
     lastMessageAt |-> Null]

\* randomId: what Math.random() yields for this request.
postChatSession(sid, body, randomId) ==
    IF requireAuth(sid) # 200 THEN Unauthorized
    ELSE IF ~insertChatSessionSchema(body) THEN Response(400, "Validation")
    ELSE IF getUser(sessions[sid]) = {}
    THEN Response(400, "ForeignKey")
    ELSE LET anonymousId == <<"User#", randomId>> IN
         IF \E s \in DOMAIN chatSessions :
                chatSessions[s].anonymousId = anonymousId
         THEN \* anonymous_id UNIQUE: the insert throws
              Response(400, "Unique")
         ELSE LET session == createChatSession(body, sessions[sid], anonymousId)
              IN [Response(200, "session") EXCEPT
                     !.chatSessions = Append(chatSessions, session),
                     !.out = {session}]

getMySessions(sid) ==
    IF requireAuth(sid) # 200 THEN Unauthorized
    ELSE [Response(200, "sessions") EXCEPT
             !.out = {chatSessions[s] :
                        s \in getChatSessionsByUser(sessions[sid])}]

\* session.userId === req.session.userId || staff of the session's
\* department || admin, for a requester whose user row is `user`.
canAccess(session, userId, user) ==
    \/ session.userId = userId
    \/ (user.role = "staff" /\ user.department = session.department)
    \/ user.role = "admin"

\* GET /api/chats/sessions/:id; a requester whose account is gone makes
\* user.role throw, which the handler answers with 500.
getSession(sid, id) ==
    IF requireAuth(sid) # 200 THEN Unauthorized
    ELSE IF getChatSession(id) = {} THEN Response(404, "Session not found")
    ELSE IF getUser(sessions[sid]) = {}
    THEN IF chatSessions[id].userId = sessions[sid]
         THEN [Response(200, "session") EXCEPT !.out = {chatSessions[id]}]
         ELSE Response(500, "TypeError")
    ELSE IF ~canAccess(chatSessions[id], sessions[sid], users[sessions[sid]])
    THEN Response(403, "Forbidden access")
    ELSE [Response(200, "session") EXCEPT !.out = {chatSessions[id]}]

getDepartmentChats(sid, department) ==
    LET gate == requireRole(sid, {"staff", "admin"}) IN
    IF gate # 200 THEN Gate(gate)
    ELSE LET user == users[sessions[sid]] IN
         IF staffOfOtherDepartment(user, department)
         THEN Response(403, "Forbidden department")
         ELSE [Response(200, "sessions") EXCEPT
                  !.out = {chatSessions[s] :
                             s \in getChatSessionsByDepartment(department)}]

MessageBodies ==
    [sessionId : ChatIds \cup {Null},
     senderId : {AbsentId, EmptyId},
     senderRole : {Absent, "student", "staff"},
     content : {Absent, "text"}]

\* createInsertSchema(messages).omit({id, createdAt, isRead}): sessionId,
\* senderId, senderRole and content are required.
insertMessageSchema(body) ==
    /\ body.sessionId # Null
    /\ body.senderId # AbsentId
    /\ body.senderRole \in {"student", "staff"}
    /\ body.content # Absent

\* storage.createMessage: the inserted row.
createMessage(body, senderId, senderRole) ==
    [sessionId |-> body.sessionId, senderId |-> senderId,
     senderRole |-> senderRole, content |-> body.content,
     createdAt |-> now]

postMessage(sid, body) ==
    IF requireAuth(sid) # 200 THEN Unauthorized
    ELSE IF ~insertMessageSchema(body) THEN Response(400, "Validation")
    ELSE IF getUser(sessions[sid]) = {} THEN Response(401, "Unauthorized user")
    ELSE IF getChatSession(body.sessionId) = {}
    THEN Response(404, "Session not found")
    ELSE LET user == users[sessions[sid]]
             session == chatSessions[body.sessionId]
         IN
         IF ~canAccess(session, sessions[sid], user)
         THEN Response(403, "Forbidden access")
         ELSE LET senderRole == IF user.role = "student" THEN "student"
                                ELSE "staff"
                  message == createMessage(body, sessions[sid], senderRole)
              IN [Response(200, "message") EXCEPT
                     !.messages = Append(messages, message),
                     !.chatSessions = [chatSessions EXCEPT
                         ![body.sessionId].lastMessageAt = now],
                     !.out = {message},
                     !.sent = broadcast(
                         (IF session.userId # Null THEN <<session.userId>>
                          ELSE <<>>)
                         \o SetToSeq(staffUsers(session.department)),
                         [type |-> "chat_message", id |-> body.sessionId,
                          payload |-> message])]

getMessages(sid, sessionId) ==
    IF requireAuth(sid) # 200 THEN Unauthorized
    ELSE IF getChatSession(sessionId) = {}
    THEN Response(404, "Session not found")
    ELSE IF getUser(sessions[sid]) = {} THEN Response(401, "Unauthorized user")
    ELSE IF ~canAccess(chatSessions[sessionId], sessions[sid],
                       users[sessions[sid]])
    THEN Response(403, "Forbidden access")
    ELSE [Response(200, "messages") EXCEPT
             !.out = {messages[m] : m \in getMessagesBySession(sessionId)}]

\* ----------------------------------------------------- /api/admin routes
\* GET /api/admin/stats, users, alerts, chats: reads behind requireRole.
adminRead(sid, what) ==
    LET gate == requireRole(sid, {"admin"}) IN
    IF gate # 200 THEN Gate(gate)
    ELSE [Response(200, what) EXCEPT
             !.out = IF what = "users" THEN {users[u] : u \in DOMAIN users}
                     ELSE IF what = "alerts"
                     THEN {alerts[a] : a \in DOMAIN alerts}
                     ELSE IF what = "chats"
                     THEN {chatSessions[c] : c \in DOMAIN chatSessions}
                     ELSE {[totalUsers |-> Cardinality(DOMAIN users),
                            totalAlerts |-> Len(alerts),
                            totalChats |-> Len(chatSessions)]}]

UserBodies ==
    [email : Emails \cup {Null},
     password : {Null, 1},
     role : Roles \cup {Absent},
     department : Departments \cup {Absent},
     isActive : {Absent, "false"}]

\* createInsertSchema(users).omit({id, createdAt, lastLogin}) with email and
\* password checked (Null: not an address, fewer than 6 characters); role,
\* department and isActive have column defaults.
insertUserSchema(body) == body.email # Null /\ body.password # Null

createAuditLog(userId, action, targetId) ==
    [userId |-> userId, action |-> action, targetId |-> targetId]

\* POST /api/admin/users
postUser(sid, body) ==
    LET gate == requireRole(sid, {"admin"}) IN
    IF gate # 200 THEN Gate(gate)
    ELSE IF ~insertUserSchema(body) THEN Response(400, "Validation")
    ELSE IF getUserByEmail(body.email) # {}
    THEN Response(400, "Email already in use")
    ELSE LET id == freshUserId
             row == User(body.email, body.password,
                         IF body.role = Absent THEN "student" ELSE body.role,
                         IF body.department = Absent THEN "none"
                         ELSE body.department)
             user == [row EXCEPT !.isActive = (body.isActive # "false")]
         IN [Response(200, "user") EXCEPT
                !.users = users @@ (id :> user),
                !.auditLogs = Append(auditLogs,
                    createAuditLog(sessions[sid], "create_user", id)),
                !.out = {user}]

\* deleteUser without the id === req.session.userId return.
deleteUser_noSelfCheck(sid, id) ==
    LET gate == requireRole(sid, {"admin"}) IN
    IF gate # 200 THEN Gate(gate)
    ELSE IF getUser(id) = {} THEN Response(404, "User not found")
    ELSE IF referenced(id) THEN Response(500, "ForeignKey")
    ELSE [Response(200, "User deleted successfully") EXCEPT
             !.users = [u \in DOMAIN users \ {id} |-> users[u]],
             !.auditLogs = Append(auditLogs,
                 createAuditLog(sessions[sid], "delete_user", id))]

\* DELETE /api/admin/users/:id
deleteUser(sid, id) ==
    LET gate == requireRole(sid, {"admin"}) IN
    IF gate # 200 THEN Gate(gate)
    ELSE IF id = sessions[sid]
    THEN Response(400, "Cannot delete your own account")
    ELSE IF getUser(id) = {} THEN Response(404, "User not found")
    ELSE IF referenced(id)
    THEN \* a row REFERENCES the user: the DELETE throws
         Response(500, "ForeignKey")
    ELSE [Response(200, "User deleted successfully") EXCEPT
             !.users = [u \in DOMAIN users \ {id} |-> users[u]],
             !.auditLogs = Append(auditLogs,
                 createAuditLog(sessions[sid], "delete_user", id))]

\* The registry after a route handler that drops the entries of users no
\* session carries and of users whose account is gone.
clientsAfter_dropStale(r) ==
    [u \in {v \in DOMAIN clients :
               /\ v \in DOMAIN r.users
               /\ \E sid \in DOMAIN r.sessions : r.sessions[sid] = v}
        |-> clients[u]]

\* The seeded database, n browsers that are not logged in, k sockets that
\* are not connected.
InitWith(n, k) ==
    /\ users = defaultUsers
    /\ sessions = [s \in 1..n |-> Null]
    /\ alerts = <<>>
    /\ chatSessions = <<>>
    /\ messages = <<>>
    /\ auditLogs = <<>>
    /\ clients = <<>>
    /\ readyState = [c \in 1..k |-> "CLOSED"]
    /\ now = 1
    /\ upgrade = [c \in 1..k |-> Null]
    /\ admitted = {}
    /\ posting = {}
    /\ creating = {}
    /\ patching = {}
    /\ last = [op |-> "none", code |-> 0, msg |-> ""]

Init(n) == InitWith(n, MaxConns)

\* The registry after a route handler: the handlers of registerRoutes reach
\* `clients` through broadcastToUser only, which reads it.
clientsAfter(r) == clients

\* A handler ran: its tables are stored, its answer is the last one.
Handle(op, r) ==
    /\ users' = r.users
    /\ sessions' = r.sessions
    /\ alerts' = r.alerts
    /\ chatSessions' = r.chatSessions
    /\ messages' = r.messages
    /\ auditLogs' = r.auditLogs
    /\ last' = [op |-> op, code |-> r.code, msg |-> r.msg]
    /\ clients' = clientsAfter(r)
    /\ UNCHANGED <<readyState, now, upgrade, posting, creating, admitted,
                   patching>>

\* ---------------------------------------------------------- HTTP actions
Login ==
    \E sid \in DOMAIN sessions, email \in Emails \cup {Null},
       password \in Passwords \cup {Null} :
        Handle("login", login(sid, email, password))

Logout ==
    \E sid \in DOMAIN sessions : Handle("logout", logout(sid))

Me ==
    \E sid \in DOMAIN sessions : Handle("me", me(sid))

PostAlert ==
    \E sid \in DOMAIN sessions, body \in AlertBodies :
        /\ Len(alerts) < MaxAlerts
        /\ \E d \in Deliveries(postAlert(sid, body).sent) :
              Handle("postAlert",
                     catchBroadcastError(postAlert(sid, body), d))

GetMyAlerts ==
    \E sid \in DOMAIN sessions : Handle("getMyAlerts", getMyAlerts(sid))

GetDepartmentAlerts ==
    \E sid \in DOMAIN sessions, department \in Departments :
        Handle("getDepartmentAlerts", getDepartmentAlerts(sid, department))

PatchAlert ==
    \E sid \in DOMAIN sessions, id \in AlertIds, body \in UpdateBodies :
        \E d \in Deliveries(patchAlert(sid, id, body).sent) :
            Handle("patchAlert",
                   catchBroadcastError(patchAlert(sid, id, body), d))

\* ------------------------------------------------------------ WebSocket
\* 'upgrade' on /ws with the cookie of session sid (Null: no valid cookie):
\* the session must carry a userId and the user must exist, otherwise the
\* socket is destroyed.
WsUpgrade ==
    \E sid \in DOMAIN sessions \cup {Null}, c \in DOMAIN readyState :
        /\ readyState[c] = "CLOSED"
        /\ c \notin UNION {clients[u] : u \in DOMAIN clients}
        /\ UNCHANGED <<tables, now, upgrade, posting, creating, admitted,
                       patching, last>>
        /\ IF sid = Null
           THEN UNCHANGED <<clients, readyState>>
           ELSE IF sessions[sid] = Null \/ getUser(sessions[sid]) = {}
           THEN UNCHANGED <<clients, readyState>>
           ELSE LET userId == sessions[sid] IN
                /\ readyState' = [readyState EXCEPT ![c] = "OPEN"]
                /\ clients' =
                     IF userId \in DOMAIN clients
                     THEN [clients EXCEPT ![userId] = @ \cup {c}]
                     ELSE clients @@ (userId :> {c})

\* A socket starts closing: readyState leaves OPEN before 'close' fires.
WsClosing ==
    \E c \in DOMAIN readyState :
        /\ readyState[c] = "OPEN"
        /\ readyState' = [readyState EXCEPT ![c] = "CLOSING"]
        /\ UNCHANGED <<tables, clients, now, upgrade, posting, creating,
                       admitted, patching, last>>

\* ws.on('close') of a registered socket.
WsClose ==
    \E userId \in DOMAIN clients :
      \E c \in clients[userId] :
        /\ readyState' = [readyState EXCEPT ![c] = "CLOSED"]
        /\ clients' = unregisterConnection(userId, c)
        /\ UNCHANGED <<tables, now, upgrade, posting, creating, admitted,
                       patching, last>>

DeleteUser ==
    \E sid \in DOMAIN sessions, id \in UserIds \cup DOMAIN users :
        Handle("deleteUser", deleteUser(sid, id))

Next ==
    \/ Login
    \/ Logout
    \/ Me
    \/ PostAlert
    \/ GetMyAlerts
    \/ GetDepartmentAlerts
    \/ PatchAlert
    \/ WsUpgrade
    \/ WsClosing
    \/ WsClose

\* Alerts and the registry, one browser.
Spec == Init(1) /\ [][Next]_vars

\* ------------------------------------------------- chat and admin actions
RegUsers == 2    \* accounts that can be added to the seeded ones

\* Fewer than RegUsers ids have been given to new accounts or are about to
\* be.
CanCreate ==
    (freshUserId - 1) + Cardinality({p \in creating : p.id = Null})
        < MaxUsers + RegUsers

Register ==
    \E sid \in DOMAIN sessions, email \in Emails \cup {Null}, password \in Passwords :
        /\ CanCreate
        /\ Handle("register", register(sid, email, password))

PostChatSession ==
    \E sid \in DOMAIN sessions, body \in ChatBodies, randomId \in Handles :
        /\ Len(chatSessions) < MaxChats
        /\ Handle("postChatSession", postChatSession(sid, body, randomId))

GetMySessions ==
    \E sid \in DOMAIN sessions : Handle("getMySessions", getMySessions(sid))

GetSession ==
    \E sid \in DOMAIN sessions, id \in ChatIds :
        Handle("getSession", getSession(sid, id))

GetDepartmentChats ==
    \E sid \in DOMAIN sessions, department \in Departments :
        Handle("getDepartmentChats", getDepartmentChats(sid, department))

PostMessage ==
    \E sid \in DOMAIN sessions, body \in MessageBodies :
        /\ Len(messages) < MaxMessages
        /\ \E d \in Deliveries(postMessage(sid, body).sent) :
              Handle("postMessage",
                     catchBroadcastError(postMessage(sid, body), d))

GetMessages ==
    \E sid \in DOMAIN sessions, sessionId \in ChatIds :
        Handle("getMessages", getMessages(sid, sessionId))

AdminRead ==
    \E sid \in DOMAIN sessions, what \in {"stats", "users", "alerts", "chats"} :
        Handle("adminRead", adminRead(sid, what))

PostUser ==
    \E sid \in DOMAIN sessions, body \in UserBodies :
        /\ CanCreate
        /\ Handle("postUser", postUser(sid, body))

\* Alerts, department views of alerts and chats, and the registry.
NextDept ==
    \/ Login
    \/ Logout
    \/ PostAlert
    \/ PatchAlert
    \/ GetDepartmentAlerts
    \/ PostChatSession
    \/ GetDepartmentChats
    \/ WsUpgrade
    \/ WsClose

SpecDept == Init(1) /\ [][NextDept]_vars

\* Chat sessions and messages, account deletion and the registry.
NextChat ==
    \/ Login
    \/ Logout
    \/ PostChatSession
    \/ GetMySessions
    \/ GetSession
    \/ GetDepartmentChats
    \/ PostMessage
    \/ GetMessages
    \/ DeleteUser
    \/ WsUpgrade
    \/ WsClosing
    \/ WsClose

SpecChat == Init(NumSessions) /\ [][NextChat]_vars

\* Accounts: login, logout and deletion, several browsers.
NextAdmin ==
    \/ Login
    \/ Logout
    \/ Me
    \/ DeleteUser
    \/ AdminRead
    \/ GetMyAlerts
    \/ WsUpgrade
    \/ WsClose

SpecAdmin == Init(NumSessions) /\ [][NextAdmin]_vars

\* -------------------------------------------- the upgrade, step by step
WsConns == 3    \* sockets of SpecWs

ExpiredSid == 0        \* a session id with no row in the session store
BadSignature == -1     \* signature.unsign(...) === false

\* The connect.sid cookie of an upgrade request.
NoCookie == [sid |-> Null, signature |-> "none"]

Cookies ==
    {NoCookie} \cup [sid : DOMAIN sessions \cup {ExpiredSid},
                     signature : {"valid", "forged"}]

\* signature.unsign(sessionCookie.slice(2), sessionSecret)
unsign(cookie) ==
    IF cookie.signature = "valid" THEN cookie.sid ELSE BadSignature

\* upgradeSession accepting a cookie whatever its signature.
upgradeSession_unsigned(cookie, fault) ==
    IF cookie = NoCookie \/ fault # "none" THEN Null
    ELSE IF cookie.sid \notin DOMAIN sessions THEN Null
    ELSE sessions[cookie.sid]

\* The first half of the 'upgrade' handler, up to the session row: the
\* userId the session carries, or Null when the socket is destroyed.
\* fault: SESSION_SECRET is not set, or pool.query throws.
upgradeSession(cookie, fault) ==
    IF cookie = NoCookie THEN Null
    ELSE IF fault = "noSecret" THEN Null
    ELSE IF unsign(cookie) = BadSignature THEN Null
    ELSE IF fault = "throws" THEN Null
    ELSE IF unsign(cookie) \notin DOMAIN sessions THEN Null
    ELSE sessions[unsign(cookie)]

\* clients.get(userId).add(ws), with the entry created when it is missing.
registerConnection(userId, c) ==
    IF userId \in DOMAIN clients
    THEN [clients EXCEPT ![userId] = @ \cup {c}]
    ELSE clients @@ (userId :> {c})

\* The socket is not connected and no upgrade of it is under way.
Unconnected(c) ==
    /\ readyState[c] = "CLOSED"
    /\ upgrade[c] = Null
    /\ c \notin UNION {clients[u] : u \in DOMAIN clients}

\* 'upgrade' on /ws until the session query has answered.
UpgradeSession ==
    \E c \in DOMAIN readyState, cookie \in Cookies,
       fault \in {"none", "noSecret", "throws"} :
        /\ Unconnected(c)
        /\ upgrade' = [upgrade EXCEPT ![c] = upgradeSession(cookie, fault)]
        /\ UNCHANGED <<tables, clients, readyState, now, posting, creating,
                       admitted, patching, last>>

\* The next part of the handler, until storage.getUser has answered: the
\* user is found, or the socket is destroyed.  fault: getUser throws.
UpgradeUser ==
    \E c \in DOMAIN readyState, fault \in {"none", "throws"} :
        /\ upgrade[c] # Null /\ c \notin admitted
        /\ UNCHANGED <<tables, clients, readyState, now, posting, creating,
                       patching, last>>
        /\ IF fault = "throws" \/ getUser(upgrade[c]) = {}
           THEN upgrade' = [upgrade EXCEPT ![c] = Null] /\ UNCHANGED admitted
           ELSE admitted' = admitted \cup {c} /\ UNCHANGED upgrade

\* The rest of the handler: wss.handleUpgrade and, in its callback, the
\* registration under the userId the session carried.
UpgradeRegister ==
    \E c \in admitted :
        /\ admitted' = admitted \ {c}
        /\ upgrade' = [upgrade EXCEPT ![c] = Null]
        /\ readyState' = [readyState EXCEPT ![c] = "OPEN"]
        /\ clients' = registerConnection(upgrade[c], c)
        /\ UNCHANGED <<tables, now, posting, creating, patching, last>>

\* The registry: upgrades, closes, and the sessions and accounts they read.
NextWs ==
    \/ Login
    \/ Logout
    \/ DeleteUser
    \/ UpgradeSession
    \/ UpgradeUser
    \/ UpgradeRegister
    \/ WsClosing
    \/ WsClose

SpecWs == InitWith(1, WsConns) /\ [][NextWs]_vars

\* ------------------------------------------------ notification fan-out
NotifyConns == 2    \* sockets of SpecNotify

\* The seeded accounts and three staff accounts created through
\* POST /api/admin/users: a second medical staff member, an inactive medical
\* staff member and a security staff member.
notifyUsers ==
    defaultUsers @@
    (4 :> User(4, 1, "staff", "medical")) @@
    (5 :> [User(5, 1, "staff", "medical") EXCEPT !.isActive = FALSE]) @@
    (6 :> User(6, 1, "staff", "security"))

InitNotify ==
    /\ users = notifyUsers
    /\ sessions = [s \in 1..1 |-> Null]
    /\ alerts = <<>>
    /\ chatSessions = <<>>
    /\ messages = <<>>
    /\ auditLogs = <<>>
    /\ clients = <<>>
    /\ readyState = [c \in 1..NotifyConns |-> "CLOSED"]
    /\ now = 1
    /\ upgrade = [c \in 1..NotifyConns |-> Null]
    /\ admitted = {}
    /\ posting = {}
    /\ creating = {}
    /\ patching = {}
    /\ last = [op |-> "none", code |-> 0, msg |-> ""]

\* Alert creation and its events, several staff members and sockets.
NextNotify ==
    \/ Login
    \/ Logout
    \/ PostAlert
    \/ WsUpgrade
    \/ WsClose

SpecNotify == InitNotify /\ [][NextNotify]_vars

\* Alerts, chat messages and their events, one browser and one socket.
NextFanOut ==
    \/ Login
    \/ Logout
    \/ PostAlert
    \/ PostChatSession
    \/ PostMessage
    \/ WsUpgrade
    \/ WsClose

SpecFanOut == Init(1) /\ [][NextFanOut]_vars

\* ------------------------------------------ createMessage, step by step
MsgPosts == 2    \* messages of SpecMsg
MaxTime  == 3    \* the clock of SpecMsg stops here

\* The UPDATE of createMessage written with the creation time of the
\* message.
touchSession_createdAt(m) ==
    [chatSessions EXCEPT
        ![messages[m].sessionId].lastMessageAt = messages[m].createdAt]

\* The UPDATE of createMessage for the inserted message m:
\* set({ lastMessageAt: new Date() }).where(eq(chatSessions.id, sessionId))
touchSession(m) ==
    [chatSessions EXCEPT ![messages[m].sessionId].lastMessageAt = now]

\* POST /api/chats/messages up to the INSERT of createMessage: the checks
\* of the handler pass and the row is stored with created_at = now().
PostMessageInsert ==
    \E sid \in DOMAIN sessions, body \in MessageBodies :
        LET r == postMessage(sid, body) IN
        /\ Len(messages) < MsgPosts
        /\ r.code = 200
        /\ messages' = Append(messages, CHOOSE message \in r.out : TRUE)
        /\ posting' = posting \cup {Len(messages) + 1}
        /\ UNCHANGED <<users, sessions, alerts, chatSessions, auditLogs,
                       clients, readyState, now, upgrade, creating,
                       admitted, patching, last>>

\* The rest of the request: the UPDATE of the session, the fan-out and the
\* answer.
PostMessageTouch ==
    \E m \in posting :
        /\ chatSessions' = touchSession(m)
        /\ posting' = posting \ {m}
        /\ last' = [op |-> "postMessage", code |-> 200, msg |-> "message"]
        /\ UNCHANGED <<users, sessions, alerts, messages, auditLogs,
                       clients, readyState, now, upgrade, creating,
                       admitted, patching>>

\* Time passes.
Tick ==
    /\ now < MaxTime
    /\ now' = now + 1
    /\ UNCHANGED <<tables, clients, readyState, upgrade, posting, creating,
                   admitted, patching, last>>

\* Concurrent posts to chat sessions.
NextMsg ==
    \/ Login
    \/ PostChatSession
    \/ PostMessageInsert
    \/ PostMessageTouch
    \/ Tick

SpecMsg == Init(NumSessions) /\ [][NextMsg]_vars

\* ------------------------------------------- messages of several sessions
ListChats == 2    \* chat sessions of SpecList
ListPosts == 3    \* messages of SpecList

\* ORDER BY created_at DESC.
orderByCreatedAt_desc(S) ==
    LET RECURSIVE pick(_)
        pick(T) ==
            IF T = {} THEN {<<>>}
            ELSE UNION {{<<m>> \o rest : rest \in pick(T \ {m})} :
                     m \in {x \in T : \A y \in T :
                               messages[x].createdAt >= messages[y].createdAt}}
    IN pick(S)

\* .orderBy(messages.createdAt) over the selected rows: the orders the
\* query can return them in, rows of equal created_at in any order.
orderByCreatedAt(S) ==
    LET RECURSIVE pick(_)
        pick(T) ==
            IF T = {} THEN {<<>>}
            ELSE UNION {{<<m>> \o rest : rest \in pick(T \ {m})} :
                     m \in {x \in T : \A y \in T :
                               messages[x].createdAt <= messages[y].createdAt}}
    IN pick(S)

\* storage.getMessagesBySession(sessionId) as the ids of the rows, in the
\* orders the query can return.
listMessages(sessionId) == orderByCreatedAt(getMessagesBySession(sessionId))

\* POST /api/chats/sessions, up to ListChats sessions.
OpenChat ==
    \E sid \in DOMAIN sessions, department \in {"medical"},
       randomId \in 1..ListChats :
        /\ Len(chatSessions) < ListChats
        /\ Handle("postChatSession",
                  postChatSession(sid, [userId |-> EmptyId,
                                        department |-> department,
                                        anonymousId |-> "",
                                        status |-> Absent], randomId))

\* POST /api/chats/messages to any of these sessions.
PostToChat ==
    \E sid \in DOMAIN sessions, sessionId \in 1..ListChats,
       senderRole \in {"student"} :
        /\ Len(messages) < ListPosts
        /\ Handle("postMessage",
                  postMessage(sid, [sessionId |-> sessionId,
                                    senderId |-> EmptyId,
                                    senderRole |-> senderRole,
                                    content |-> "text"]))

\* GET /api/chats/messages/:sessionId
ListMessages ==
    \E sid \in DOMAIN sessions, sessionId \in 1..ListChats :
        Handle("getMessages", getMessages(sid, sessionId))

\* Messages posted to several chat sessions over time, and their lists.
NextList ==
    \/ Login
    \/ OpenChat
    \/ PostToChat
    \/ ListMessages
    \/ Tick

SpecList == Init(1) /\ [][NextList]_vars

\* --------------------------------------------- user creation, step by step
\* An address no seeded account has.
NewEmail == MaxUsers + 1

\* The addresses of the accounts that can be added.
NewEmails == (MaxUsers + 1)..(MaxUsers + RegUsers)

\* The INSERT of createUser without the UNIQUE constraint of users.email.
createUser_noUnique(user) == users @@ (freshUserId :> user)

\* storage.createUser(user): the users table after the INSERT; the table as
\* it is when the INSERT throws on users.email UNIQUE.
createUser(user) ==
    IF getUserByEmail(user.email) # {} THEN users
    ELSE users @@ (freshUserId :> user)

\* POST /api/auth/register up to the INSERT: the body is parsed and
\* getUserByEmail has answered; a request that fails there is answered.
RegisterCheck ==
    \E sid \in DOMAIN sessions, email \in NewEmails \cup {1} :
        LET r == register(sid, email, 1) IN
        /\ CanCreate
        /\ IF r.code # 200 THEN Handle("register", r)
           ELSE /\ creating' = creating \cup
                      {[op |-> "register", sid |-> sid,
                        actor |-> sessions[sid], id |-> Null,
                        user |-> CHOOSE user \in r.out : TRUE]}
                /\ UNCHANGED <<tables, clients, readyState, now, upgrade,
                               admitted, posting, patching, last>>

\* POST /api/admin/users up to the INSERT.
PostUserCheck ==
    \E sid \in DOMAIN sessions, email \in NewEmails \cup {1},
       role \in {Absent, "admin"} :
        LET r == postUser(sid, [email |-> email, password |-> 1,
                                role |-> role, department |-> Absent,
                                isActive |-> Absent])
        IN
        /\ CanCreate
        /\ IF r.code # 200 THEN Handle("postUser", r)
           ELSE /\ creating' = creating \cup
                      {[op |-> "postUser", sid |-> sid,
                        actor |-> sessions[sid], id |-> Null,
                        user |-> CHOOSE user \in r.out : TRUE]}
                /\ UNCHANGED <<tables, clients, readyState, now, upgrade,
                               admitted, posting, patching, last>>

\* The INSERT of either request.  One that throws is answered 400 by the
\* catch; after one that succeeds a registration logs the new account in
\* and answers, an admin creation goes on to its audit log entry.
CreateUser ==
    \E p \in creating :
        LET created == createUser(p.user)
            id == freshUserId
        IN
        /\ p.id = Null
        /\ UNCHANGED <<alerts, chatSessions, messages, auditLogs, clients,
                       readyState, now, upgrade, admitted, posting, patching>>
        /\ IF created = users
           THEN /\ creating' = creating \ {p}
                /\ last' = [op |-> p.op, code |-> 400, msg |-> "Unique"]
                /\ UNCHANGED <<users, sessions>>
           ELSE /\ users' = created
                /\ IF p.op = "register"
                   THEN /\ creating' = creating \ {p}
                        /\ sessions' = [sessions EXCEPT ![p.sid] = id]
                        /\ last' = [op |-> p.op, code |-> 200, msg |-> "user"]
                   ELSE /\ creating' =
                              (creating \ {p}) \cup {[p EXCEPT !.id = id]}
                        /\ UNCHANGED <<sessions, last>>

\* The rest of POST /api/admin/users: storage.createAuditLog with the
\* userId of the request's session, and the answer.  audit_logs.user_id
\* REFERENCES users(id): the INSERT throws when that account is gone, and
\* the catch answers 400.
AuditCreatedUser ==
    \E p \in creating :
        /\ p.id # Null
        /\ creating' = creating \ {p}
        /\ UNCHANGED <<users, sessions, alerts, chatSessions, messages,
                       clients, readyState, now, upgrade, admitted, posting,
                       patching>>
        /\ IF getUser(p.actor) = {}
           THEN /\ last' = [op |-> p.op, code |-> 400, msg |-> "ForeignKey"]
                /\ UNCHANGED auditLogs
           ELSE /\ auditLogs' = Append(auditLogs,
                       createAuditLog(p.actor, "create_user", p.id))
                /\ last' = [op |-> p.op, code |-> 200, msg |-> "user"]

\* Concurrent registrations and admin user creations.
NextReg ==
    \/ Login
    \/ RegisterCheck
    \/ PostUserCheck
    \/ CreateUser
    \/ AuditCreatedUser

SpecReg == Init(NumSessions) /\ [][NextReg]_vars

\* -------------------------------------------- status update, step by step
MaxPatches == 2    \* status updates of SpecPatch between check and UPDATE

\* PATCH /api/alerts/:id up to the UPDATE: the gate, the body, the alert
\* read by getAlert, the department and the transition are checked; a
\* request that fails there is answered.
PatchAlertCheck ==
    \E sid \in DOMAIN sessions, id \in AlertIds,
       body \in {b \in UpdateBodies : b.responseNotes = Absent} :
        LET r == patchAlert(sid, id, body) IN
        /\ Cardinality(patching) < MaxPatches
        /\ IF r.code # 200 THEN Handle("patchAlert", r)
           ELSE /\ patching' = patching \cup
                      {[sid |-> sid, id |-> id, body |-> body,
                        userId |-> sessions[sid]]}
                /\ UNCHANGED <<tables, clients, readyState, now, upgrade,
                               posting, creating, admitted, last>>

\* The rest of the request: storage.updateAlert(id, updateData) on the row
\* as it is stored now, the event and the answer.
PatchAlertWrite ==
    \E p \in patching :
        /\ patching' = patching \ {p}
        /\ alerts' = [alerts EXCEPT
                         ![p.id] = updateAlert(@, p.body, p.userId)]
        /\ last' = [op |-> "patchAlert", code |-> 200, msg |-> "alert"]
        /\ UNCHANGED <<users, sessions, chatSessions, messages, auditLogs,
                       clients, readyState, now, upgrade, posting,
                       creating, admitted>>

\* Concurrent status updates of an alert.
NextPatch ==
    \/ Login
    \/ PostAlert
    \/ PatchAlertCheck
    \/ PatchAlertWrite

SpecPatch == Init(1) /\ [][NextPatch]_vars

\* ----------------------------------- every kind of request and the registry
\* POST /api/alerts with the body of the client for a medical emergency.
RaiseAlert ==
    \E sid \in DOMAIN sessions :
        /\ Len(alerts) < MaxAlerts
        /\ Handle("postAlert",
                  postAlert(sid, [userId |-> EmptyId,
                                  department |-> "medical",
                                  status |-> Absent,
                                  responseNotes |-> Absent]))

\* PATCH /api/alerts/:id { status: "acknowledged" }
AcknowledgeAlert ==
    \E sid \in DOMAIN sessions, id \in AlertIds :
        Handle("patchAlert",
               patchAlert(sid, id, [status |-> "acknowledged",
                                    responseNotes |-> Absent]))

\* POST /api/chats/sessions for the medical department.
StartChat ==
    \E sid \in DOMAIN sessions, randomId \in Handles :
        /\ Len(chatSessions) < MaxChats
        /\ Handle("postChatSession",
                  postChatSession(sid, [userId |-> EmptyId,
                                        department |-> "medical",
                                        anonymousId |-> "",
                                        status |-> Absent], randomId))

\* POST /api/chats/messages
SendMessage ==
    \E sid \in DOMAIN sessions, sessionId \in ChatIds :
        /\ Len(messages) < MaxMessages
        /\ Handle("postMessage",
                  postMessage(sid, [sessionId |-> sessionId,
                                    senderId |-> EmptyId,
                                    senderRole |-> "student",
                                    content |-> "text"]))

\* POST /api/auth/register, for the first account added to the seeded ones.
SignUp ==
    \E sid \in DOMAIN sessions, email \in Emails \cup {NewEmail} :
        /\ freshUserId = MaxUsers + 1
        /\ Handle("register", register(sid, email, 1))

\* POST /api/admin/users of a medical staff member, for the first account
\* added to the seeded ones.
AddUser ==
    \E sid \in DOMAIN sessions, email \in Emails \cup {NewEmail} :
        /\ freshUserId = MaxUsers + 1
        /\ Handle("postUser",
                  postUser(sid, [email |-> email, password |-> 1,
                                 role |-> "staff", department |-> "medical",
                                 isActive |-> Absent]))

\* Requests of every kind that writes, and the registry.
NextFrame ==
    \/ Login
    \/ Logout
    \/ SignUp
    \/ RaiseAlert
    \/ AcknowledgeAlert
    \/ StartChat
    \/ SendMessage
    \/ AddUser
    \/ DeleteUser
    \/ WsUpgrade
    \/ WsClose

SpecFrame == Init(1) /\ [][NextFrame]_vars

\* Admin user management, requests of several admins under way at a time.
NextAudit ==
    \/ Login
    \/ PostUserCheck
    \/ CreateUser
    \/ AuditCreatedUser
    \/ DeleteUser

SpecAudit == Init(1) /\ [][NextAudit]_vars

\* ================================================================ claims
\* The requester of session sid is an admin, or a staff member of the
\* department of alert id.
MayManage(sid, id) ==
    /\ sessions[sid] \in DOMAIN users
    /\ \/ users[sessions[sid]].role = "admin"
       \/ /\ users[sessions[sid]].role = "staff"
          /\ users[sessions[sid]].department = alerts[id].department

\* The transitions the specification allows.
TransitionTable ==
    {<<"pending", "acknowledged">>, <<"pending", "dispatched">>,
     <<"acknowledged", "dispatched">>, <<"dispatched", "resolved">>}

\* C1: a status update by an authorized actor succeeds exactly for the pairs
\* (current, requested) of the transition table; every other request is
\* answered 400 "Cannot transition" and leaves the alerts as they are.
C1_OnlyTableTransitions ==
    \A sid \in DOMAIN sessions, id \in DOMAIN alerts, body \in UpdateBodies :
        (body.status \in AlertStatuses /\ MayManage(sid, id)) =>
            LET r == patchAlert(sid, id, body) IN
            IF <<alerts[id].status, body.status>> \in TransitionTable
            THEN r.code = 200
            ELSE r.code = 400 /\ r.msg = "Cannot transition"
                 /\ r.alerts = alerts

\* C2: resolved is terminal: no step changes any field of an alert whose
\* status is resolved.
C2_ResolvedIsTerminal ==
    [][\A id \in DOMAIN alerts :
          alerts[id].status = "resolved" => alerts'[id] = alerts[id]]_vars

\* C3: every alert createAlert persists has status pending, whatever the
\* payload carries.
C3_CreatedPending ==
    [][\A id \in DOMAIN alerts' \ DOMAIN alerts :
          alerts'[id].status = "pending"]_vars

\* C4: every alert createAlert persists is owned by the authenticated
\* requester, whatever userId the payload carries.
C4_OwnerIsRequester ==
    \A sid \in DOMAIN sessions, body \in AlertBodies :
        LET r == postAlert(sid, body) IN
        r.alerts # alerts =>
            /\ sessions[sid] \in DOMAIN users
            /\ Len(r.alerts) = Len(alerts) + 1
            /\ SubSeq(r.alerts, 1, Len(alerts)) = alerts
            /\ r.alerts[Len(r.alerts)].userId = sessions[sid]
            /\ \A row \in r.out : row.userId = sessions[sid]

\* An alert was created and the browser that created it is still logged in.
C4_Witness ==
    /\ last.op = "postAlert" /\ last.code = 200
    /\ alerts # <<>>
    /\ \E sid \in DOMAIN sessions :
          alerts[Len(alerts)].userId = sessions[sid]

\* C5: POST /api/alerts creates an alert only for a requester whose role is
\* student.
C5_OnlyStudentsCreate ==
    \A sid \in DOMAIN sessions, body \in AlertBodies :
        postAlert(sid, body).alerts # alerts =>
            /\ sessions[sid] \in DOMAIN users
            /\ users[sessions[sid]].role = "student"

\* C7: whoever is recorded in acknowledgedBy is an admin or a staff member of
\* the alert's department, and only such a requester changes an alert.
C7_ResponderMatchesDepartment ==
    /\ \A a \in DOMAIN alerts :
          alerts[a].acknowledgedBy # Null =>
              /\ alerts[a].acknowledgedBy \in DOMAIN users
              /\ LET u == users[alerts[a].acknowledgedBy] IN
                 \/ u.role = "admin"
                 \/ u.role = "staff" /\ u.department = alerts[a].department
    /\ \A sid \in DOMAIN sessions, id \in DOMAIN alerts, body \in UpdateBodies :
          patchAlert(sid, id, body).alerts # alerts => MayManage(sid, id)

\* A staff member acknowledged an alert of the own department.
C7_Witness ==
    /\ last.op = "patchAlert" /\ last.code = 200
    /\ \E a \in DOMAIN alerts :
          /\ alerts[a].status = "acknowledged"
          /\ alerts[a].acknowledgedBy \in DOMAIN users
          /\ users[alerts[a].acknowledgedBy].role = "staff"
          /\ users[alerts[a].acknowledgedBy].department = alerts[a].department

\* The handler left every table as it was, returned no row and sent nothing.
NoEffect(r) ==
    /\ r.users = users /\ r.sessions = sessions /\ r.alerts = alerts
    /\ r.chatSessions = chatSessions /\ r.messages = messages
    /\ r.auditLogs = auditLogs
    /\ r.sent = NoSend /\ r.out = {}

\* The requester of session sid is a staff member with a stored account.
IsStaff(sid) ==
    sessions[sid] \in DOMAIN users /\ users[sessions[sid]].role = "staff"

IsAdmin(sid) ==
    sessions[sid] \in DOMAIN users /\ users[sessions[sid]].role = "admin"

\* For a staff member of department X and Y # X: the two department lists of
\* Y are answered 403 without effect, and so is an update of an alert of Y
\* whose body is answered with `code`.
StaffKeptOut(sid, code(_)) ==
    LET X == users[sessions[sid]].department IN
    /\ \A id \in DOMAIN alerts, body \in UpdateBodies :
          alerts[id].department # X =>
              LET r == patchAlert(sid, id, body) IN
              r.code = code(body) /\ NoEffect(r)
    /\ \A Y \in Departments \ {X} :
          LET a == getDepartmentAlerts(sid, Y)
              c == getDepartmentChats(sid, Y)
          IN a.code = 403 /\ NoEffect(a) /\ c.code = 403 /\ NoEffect(c)

\* An admin is answered 403 for no department.
AdminLetIn(sid) ==
    /\ \A id \in DOMAIN alerts, body \in UpdateBodies :
          patchAlert(sid, id, body).code # 403
    /\ \A Y \in Departments :
          /\ getDepartmentAlerts(sid, Y).code = 200
          /\ getDepartmentAlerts(sid, Y).out =
                {alerts[a] : a \in {i \in DOMAIN alerts :
                                       alerts[i].department = Y}}
          /\ getDepartmentChats(sid, Y).code = 200
          /\ getDepartmentChats(sid, Y).out =
                {chatSessions[c] : c \in {i \in DOMAIN chatSessions :
                                             chatSessions[i].department = Y}}

Always403(body) == 403

ValidationFirst(body) == IF body.status \in AlertStatuses THEN 403 ELSE 400

\* C6 as stated: a staff member of department X is answered 403 for every
\* update of an alert of another department and for both department lists
\* of another department, without any effect; an admin is let in.
C6_AlwaysForbidden ==
    \A sid \in DOMAIN sessions :
        /\ IsStaff(sid) => StaffKeptOut(sid, Always403)
        /\ IsAdmin(sid) => AdminLetIn(sid)

\* C6 amended: as C6, but an update whose body fails updateAlertStatusSchema
\* is answered 400 (validation comes before the department check), still
\* without any effect.
C6_ForbiddenOrInvalid ==
    \A sid \in DOMAIN sessions :
        /\ IsStaff(sid) => StaffKeptOut(sid, ValidationFirst)
        /\ IsAdmin(sid) => AdminLetIn(sid)

\* A staff member was just refused the update of another department's alert
\* whose owner has an open socket, while a chat session of another
\* department is stored.
C6_Witness ==
    /\ last.op = "patchAlert" /\ last.code = 403
    /\ last.msg = "Forbidden department"
    /\ \E sid \in DOMAIN sessions, id \in DOMAIN alerts :
          /\ IsStaff(sid)
          /\ alerts[id].department # users[sessions[sid]].department
          /\ broadcastToUser(alerts[id].userId) # {}
          /\ \E c \in DOMAIN chatSessions :
                chatSessions[c].department # users[sessions[sid]].department

\* The requester uid is the owner of chat session s, a staff member of its
\* department, or an admin.
MayChat(uid, s) ==
    \/ chatSessions[s].userId = uid
    \/ /\ uid \in DOMAIN users
       /\ \/ users[uid].role = "admin"
          \/ /\ users[uid].role = "staff"
             /\ users[uid].department = chatSessions[s].department

\* postMessage and listMessages succeed only for a requester who may chat.
ChatOnlyForParties(sid) ==
    /\ \A body \in MessageBodies :
          LET r == postMessage(sid, body) IN
          /\ r.code = 200 =>
                /\ body.sessionId \in DOMAIN chatSessions
                /\ MayChat(sessions[sid], body.sessionId)
          /\ r.code # 200 => NoEffect(r)
    /\ \A id \in ChatIds :
          LET r == getMessages(sid, id) IN
          /\ r.code = 200 =>
                id \in DOMAIN chatSessions /\ MayChat(sessions[sid], id)
          /\ r.code # 200 => NoEffect(r)

\* C8 as stated: for an authenticated requester postMessage and listMessages
\* succeed only for a party of the session, any other requester is answered
\* 403 without effect, and a missing session is answered 404.
C8_ForbiddenOrNotFound ==
    \A sid \in DOMAIN sessions :
        sessions[sid] # Null =>
            /\ ChatOnlyForParties(sid)
            /\ \A body \in MessageBodies :
                  /\ (body.sessionId \in DOMAIN chatSessions
                      /\ ~MayChat(sessions[sid], body.sessionId))
                        => postMessage(sid, body).code = 403
                  /\ body.sessionId \in ChatIds \ DOMAIN chatSessions
                        => postMessage(sid, body).code = 404
            /\ \A id \in ChatIds :
                  /\ (id \in DOMAIN chatSessions /\ ~MayChat(sessions[sid], id))
                        => getMessages(sid, id).code = 403
                  /\ id \notin DOMAIN chatSessions
                        => getMessages(sid, id).code = 404

\* The answers session sid gets from the routes behind requireAuth, over
\* every input.
BehindAuth(sid) ==
    {postAlert(sid, body) : body \in AlertBodies}
    \cup {getMyAlerts(sid), getMySessions(sid)}
    \cup {postChatSession(sid, body, h) : body \in ChatBodies, h \in Handles}
    \cup {getSession(sid, id) : id \in ChatIds}
    \cup {postMessage(sid, body) : body \in MessageBodies}
    \cup {getMessages(sid, id) : id \in ChatIds}

\* The answers from the routes behind requireRole("staff", "admin").
BehindStaff(sid) ==
    {getDepartmentAlerts(sid, d) : d \in Departments}
    \cup {patchAlert(sid, id, body) : id \in AlertIds, body \in UpdateBodies}
    \cup {getDepartmentChats(sid, d) : d \in Departments}

\* The answers from the routes behind requireRole("admin").
BehindAdmin(sid) ==
    {adminRead(sid, what) : what \in {"stats", "users", "alerts", "chats"}}
    \cup {postUser(sid, body) : body \in UserBodies}
    \cup {deleteUser(sid, id) : id \in UserIds}

\* The session carries a userId, but the account is gone or its role is not
\* one of roles.
Disallowed(sid, roles) ==
    /\ sessions[sid] # Null
    /\ \/ sessions[sid] \notin DOMAIN users
       \/ users[sessions[sid]].role \notin roles

\* In every state, for every input: no userId in the session is answered
\* 401, a disallowed role is answered 403, both without effect.
GateRefuses ==
    \A sid \in DOMAIN sessions :
        /\ sessions[sid] = Null =>
              \A r \in BehindAuth(sid) \cup BehindStaff(sid)
                          \cup BehindAdmin(sid) :
                  r.code = 401 /\ NoEffect(r)
        /\ Disallowed(sid, {"staff", "admin"}) =>
              \A r \in BehindStaff(sid) : r.code = 403 /\ NoEffect(r)
        /\ Disallowed(sid, {"admin"}) =>
              \A r \in BehindAdmin(sid) : r.code = 403 /\ NoEffect(r)

\* C9: a protected handler runs only for a session that carries a userId
\* and, on a role-gated route, an existing user with an allowed role; a
\* request without a userId is answered 401 and one with a disallowed role
\* 403, with every table unchanged, and a step that answers a request leaves
\* the connection registry as it was.
C9_GateRefusesWithoutEffect ==
    /\ []GateRefuses
    /\ [][(tables' # tables \/ last' # last)
             => UNCHANGED <<clients, readyState>>]_vars

\* A role-gated read was just refused with 403 while a chat session is
\* stored, the owner of it is connected, and another browser is logged out.
C9_Witness ==
    /\ last.op = "getDepartmentChats" /\ last.code = 403
    /\ chatSessions # <<>>
    /\ clients # <<>>
    /\ \E sid \in DOMAIN sessions : sessions[sid] = Null
    /\ \E sid \in DOMAIN sessions : Disallowed(sid, {"staff", "admin"})

\* C10: an admin's delete of the admin's own id is answered 400, removes no
\* user and appends no audit log entry, so the account is there afterwards.
C10_SelfDeleteRefused ==
    \A sid \in DOMAIN sessions :
        IsAdmin(sid) =>
            LET r == deleteUser(sid, sessions[sid]) IN
            /\ r.code = 400
            /\ r.users = users /\ r.auditLogs = auditLogs /\ NoEffect(r)
            /\ sessions[sid] \in DOMAIN r.users

\* An admin's own delete request was just answered 400, after another
\* account had been deleted.
C10_Witness ==
    /\ last.op = "deleteUser" /\ last.code = 400
    /\ last.msg = "Cannot delete your own account"
    /\ auditLogs # <<>>
    /\ \E sid \in DOMAIN sessions : IsAdmin(sid)

\* C11: a successful status update stores the requested status and stamps
\* the matching field with the current time (acknowledged: acknowledgedAt
\* and acknowledgedBy = the acting user, dispatched: dispatchedAt, resolved:
\* resolvedAt) and no other stamp; a rejected update leaves every alert as
\* it was.
C11_UpdateStamps ==
    \A sid \in DOMAIN sessions, id \in AlertIds, body \in UpdateBodies :
        LET r == patchAlert(sid, id, body) IN
        IF r.code # 200 THEN r.alerts = alerts
        ELSE LET old == alerts[id]
                 new == r.alerts[id]
             IN
             /\ new.status = body.status
             /\ new.acknowledgedAt =
                   IF body.status = "acknowledged" THEN now
                   ELSE old.acknowledgedAt
             /\ new.acknowledgedBy =
                   IF body.status = "acknowledged" THEN sessions[sid]
                   ELSE old.acknowledgedBy
             /\ new.dispatchedAt =
                   IF body.status = "dispatched" THEN now ELSE old.dispatchedAt
             /\ new.resolvedAt =
                   IF body.status = "resolved" THEN now ELSE old.resolvedAt
             /\ \A other \in DOMAIN alerts \ {id} :
                   r.alerts[other] = alerts[other]

\* An update to dispatched was just answered 200 on an alert that had been
\* acknowledged by the browser's user.
C11_Witness ==
    /\ last.op = "patchAlert" /\ last.code = 200
    /\ \E id \in DOMAIN alerts, sid \in DOMAIN sessions :
          /\ alerts[id].status = "dispatched"
          /\ alerts[id].dispatchedAt = now
          /\ alerts[id].acknowledgedAt = now
          /\ alerts[id].acknowledgedBy = sessions[sid]
          /\ alerts[id].resolvedAt = Null

\* The sockets registered under userId.
Registered(userId) ==
    IF userId \in DOMAIN clients THEN clients[userId] ELSE {}

\* Every id a row, a session or the registry can name.
AnyUserId == UserIds \cup DOMAIN users \cup DOMAIN clients

\* C12: every user id in the registry maps to a non-empty set of sockets
\* none of which has closed, a socket is registered under one user only, and
\* a push to a user who is not in the registry sends nothing.
C12_NoEmptyRegistryEntry ==
    /\ \A u \in DOMAIN clients :
          /\ clients[u] # {}
          /\ \A c \in clients[u] : readyState[c] # "CLOSED"
          /\ \A v \in DOMAIN clients \ {u} : clients[u] \cap clients[v] = {}
    /\ \A u \in AnyUserId \ DOMAIN clients :
          /\ broadcastToUser(u) = {}
          /\ \A c \in DOMAIN readyState :
                broadcast(<<u>>, NoEvent).count[c] = 0

\* One user is registered with a single socket that is closing, every other
\* socket is closed, and the logged-in user is not in the registry.
C12_Witness ==
    /\ \E u \in DOMAIN clients :
          /\ DOMAIN clients = {u}
          /\ \E c \in DOMAIN readyState :
                /\ clients[u] = {c} /\ readyState[c] = "CLOSING"
                /\ \A d \in DOMAIN readyState \ {c} : readyState[d] = "CLOSED"
    /\ \E sid \in DOMAIN sessions :
          sessions[sid] \in DOMAIN users \ DOMAIN clients

\* C13: a push to user u is sent once to every socket registered under u
\* whose readyState is OPEN, and to no other socket.
C13_PushToOpenSocketsOfUser ==
    \A u \in AnyUserId :
        /\ broadcastToUser(u) =
              {c \in Registered(u) : readyState[c] = "OPEN"}
        /\ \A c \in DOMAIN readyState :
              broadcast(<<u>>, NoEvent).count[c] =
                  IF c \in Registered(u) /\ readyState[c] = "OPEN"
                  THEN 1 ELSE 0

\* One user has an open and a closing socket, another user an open one.
C13_Witness ==
    \E u \in DOMAIN clients, v \in DOMAIN clients :
        /\ u # v
        /\ \E c \in clients[u], d \in clients[u] :
              readyState[c] = "OPEN" /\ readyState[d] = "CLOSING"
        /\ \E c \in clients[v] : readyState[c] = "OPEN"

\* Some socket is newly registered under u by this step.
NewlyRegistered(c, u) ==
    /\ u \in DOMAIN clients' /\ c \in clients'[u]
    /\ ~(u \in DOMAIN clients /\ c \in clients[u])

C14_AtMostOnce ==
    \A sid \in DOMAIN sessions, c \in DOMAIN readyState :
        /\ \A body \in AlertBodies : postAlert(sid, body).sent.count[c] <= 1
        /\ \A id \in AlertIds, body \in UpdateBodies :
              patchAlert(sid, id, body).sent.count[c] <= 1
        /\ \A body \in MessageBodies :
              postMessage(sid, body).sent.count[c] <= 1

\* The row names the user id owner in userId or senderId.
Reveals(row, owner) ==
    \/ "userId" \in DOMAIN row /\ row.userId = owner
    \/ "senderId" \in DOMAIN row /\ row.senderId = owner

\* C20: nothing a staff member is given about a chat session of another
\* user (the department list, the session, its messages, a chat_message
\* event on a socket of the staff member) names the user id of the owner.
C20_OwnerIdHiddenFromStaff ==
    \A sid \in DOMAIN sessions :
        IsStaff(sid) =>
            \A s \in DOMAIN chatSessions :
                LET owner == chatSessions[s].userId IN
                owner # sessions[sid] =>
                    /\ \A row \in getDepartmentChats(sid,
                                     chatSessions[s].department).out :
                          ~Reveals(row, owner)
                    /\ \A row \in getSession(sid, s).out : ~Reveals(row, owner)
                    /\ \A row \in getMessages(sid, s).out : ~Reveals(row, owner)
                    /\ \A from \in DOMAIN sessions, body \in MessageBodies :
                          LET r == postMessage(from, body) IN
                          (body.sessionId = s
                           /\ \E c \in Registered(sessions[sid]) :
                                 r.sent.count[c] > 0)
                              => ~Reveals(r.sent.event.payload, owner)

\* The socket is open and registered under an active staff member of the
\* department.
OpenSocketOfActiveStaff(c, department) ==
    \E u \in DOMAIN users :
        /\ c \in Registered(u) /\ readyState[c] = "OPEN"
        /\ users[u].role = "staff" /\ users[u].department = department
        /\ users[u].isActive

\* C16: a successful alert creation for department D sends one new_alert
\* event, carrying the alert, to every open socket of every active staff
\* member of D and to no other socket; a refused creation sends nothing.
C16_NewAlertToDepartmentStaff ==
    \A sid \in DOMAIN sessions, body \in AlertBodies :
        LET r == postAlert(sid, body) IN
        IF r.code # 200 THEN r.sent = NoSend
        ELSE /\ r.sent.event.type = "new_alert"
             /\ r.sent.event.payload \in r.out
             /\ r.sent.event.payload.department = body.department
             /\ \A c \in DOMAIN readyState :
                   r.sent.count[c] =
                       IF OpenSocketOfActiveStaff(c, body.department)
                       THEN 1 ELSE 0

\* A medical alert was just created while both active medical staff members
\* have an open socket; an inactive medical staff account is stored.
C16_Witness ==
    /\ last.op = "postAlert" /\ last.code = 200
    /\ alerts # <<>> /\ alerts[Len(alerts)].department = "medical"
    /\ \A c \in DOMAIN readyState :
          OpenSocketOfActiveStaff(c, "medical")
    /\ Cardinality(DOMAIN clients) = 2
    /\ \E u \in DOMAIN users :
          /\ users[u].role = "staff" /\ users[u].department = "medical"
          /\ ~users[u].isActive

\* C17: a status update answered 200 sends one alert_updated event with the
\* alert id and the stored status to every open socket of the alert's owner
\* and to no other socket; an update answered otherwise sends nothing, and
\* no other route sends alert_updated.
C17_AlertUpdatedToOwner ==
    \A sid \in DOMAIN sessions :
        /\ \A id \in AlertIds, body \in UpdateBodies :
              LET r == patchAlert(sid, id, body) IN
              IF r.code # 200 THEN r.sent = NoSend
              ELSE /\ r.sent.event.type = "alert_updated"
                   /\ r.sent.event.id = id
                   /\ r.sent.event.payload = r.alerts[id].status
                   /\ \A c \in DOMAIN readyState :
                         r.sent.count[c] =
                             IF c \in Registered(alerts[id].userId)
                                /\ readyState[c] = "OPEN"
                             THEN 1 ELSE 0
        /\ \A body \in AlertBodies :
              postAlert(sid, body).sent.event.type # "alert_updated"
        /\ \A body \in MessageBodies :
              postMessage(sid, body).sent.event.type # "alert_updated"

\* A status update just succeeded on an alert of the student, who has an
\* open socket.
C17_Witness ==
    /\ last.op = "patchAlert" /\ last.code = 200
    /\ \E id \in DOMAIN alerts :
          /\ alerts[id].userId \in DOMAIN users
          /\ users[alerts[id].userId].role = "student"
          /\ alerts[id].status = "resolved"
          /\ \E c \in Registered(alerts[id].userId) : readyState[c] = "OPEN"

\* The handler whose fan-out failed answers f where it would have answered
\* r: same status and rows returned, same tables, and a success with the
\* written row whenever a table was written.
SameOutcome(f, r) ==
    /\ f.code = r.code /\ f.msg = r.msg /\ f.out = r.out
    /\ f.users = r.users /\ f.sessions = r.sessions /\ f.alerts = r.alerts
    /\ f.chatSessions = r.chatSessions /\ f.messages = r.messages
    /\ f.auditLogs = r.auditLogs
    /\ (f.alerts # alerts \/ f.messages # messages
        \/ f.chatSessions # chatSessions)
          => /\ f.code = 200
             /\ \E row \in f.out :
                   \/ \E a \in DOMAIN f.alerts : f.alerts[a] = row
                   \/ \E m \in DOMAIN f.messages : f.messages[m] = row

\* C18: whatever part of its fan-out an alert creation, a status update or
\* a message post gets done before the fan-out fails, the request is
\* answered as without the failure and what it wrote stays written.
C18_FanOutFailureSwallowed ==
    \A sid \in DOMAIN sessions :
        /\ \A body \in AlertBodies :
              LET r == postAlert(sid, body) IN
              \A d \in Deliveries(r.sent) :
                  SameOutcome(catchBroadcastError(r, d), r)
        /\ \A id \in AlertIds, body \in UpdateBodies :
              LET r == patchAlert(sid, id, body) IN
              \A d \in Deliveries(r.sent) :
                  SameOutcome(catchBroadcastError(r, d), r)
        /\ \A body \in MessageBodies :
              LET r == postMessage(sid, body) IN
              \A d \in Deliveries(r.sent) :
                  SameOutcome(catchBroadcastError(r, d), r)

\* A message was just posted to a chat session of the medical staff member,
\* who also owns a medical alert, is logged in and has an open socket: each
\* of the three fan-outs has a send that can fail.
C18_Witness ==
    /\ last.op = "postMessage" /\ last.code = 200
    /\ \E sid \in DOMAIN sessions, a \in DOMAIN alerts,
          s \in DOMAIN chatSessions :
          /\ IsStaff(sid)
          /\ alerts[a].userId = sessions[sid]
          /\ alerts[a].department = users[sessions[sid]].department
          /\ chatSessions[s].userId = sessions[sid]
          /\ \E c \in Registered(sessions[sid]) : readyState[c] = "OPEN"
          /\ \E body \in AlertBodies :
                Cardinality(Deliveries(postAlert(sid, body).sent)) > 1
          /\ \E body \in UpdateBodies :
                Cardinality(Deliveries(patchAlert(sid, a, body).sent)) > 1

DepartmentOnly(body) ==
    /\ body.userId = AbsentId /\ body.anonymousId = Absent
    /\ body.status = Absent
    /\ body.department \in ChatDepartments

\* C21: a logged-in user's POST /api/chats/sessions with a body of only a
\* valid department creates a session owned by the requester, active, with
\* a generated handle no other stored session has; when the generated handle
\* is taken no session is created; no two stored sessions share a handle.
C21_DepartmentOnlyCreates ==
    /\ \A s \in DOMAIN chatSessions, t \in DOMAIN chatSessions :
          s # t => chatSessions[s].anonymousId # chatSessions[t].anonymousId
    /\ \A sid \in DOMAIN sessions, body \in ChatBodies, h \in Handles :
          (sessions[sid] \in DOMAIN users /\ DepartmentOnly(body)) =>
              LET r == postChatSession(sid, body, h) IN
              IF \E s \in DOMAIN chatSessions :
                    chatSessions[s].anonymousId = <<"User#", h>>
              THEN r.code # 200 /\ r.chatSessions = chatSessions
              ELSE /\ r.code = 200
                   /\ Len(r.chatSessions) = Len(chatSessions) + 1
                   /\ SubSeq(r.chatSessions, 1, Len(chatSessions))
                         = chatSessions
                   /\ LET new == r.chatSessions[Len(r.chatSessions)] IN
                      /\ new.userId = sessions[sid]
                      /\ new.status = "active"
                      /\ new.department = body.department
                      /\ new.anonymousId = <<"User#", h>>

\* senderRole as the handler resolves it from the stored role.
ResolvedRole(uid) == IF users[uid].role = "student" THEN "student" ELSE "staff"

\* C22: a POST /api/chats/messages by a party of the session, with a
\* sessionId and a content and whatever senderId and senderRole the body
\* carries or leaves out, stores one message whose senderId is the requester
\* and whose senderRole comes from the requester's stored role.
C22_SenderResolvedServerSide ==
    \A sid \in DOMAIN sessions, body \in MessageBodies :
        (/\ sessions[sid] \in DOMAIN users
         /\ body.sessionId \in DOMAIN chatSessions
         /\ body.content # Absent
         /\ MayChat(sessions[sid], body.sessionId)) =>
            LET r == postMessage(sid, body) IN
            /\ r.code = 200
            /\ Len(r.messages) = Len(messages) + 1
            /\ SubSeq(r.messages, 1, Len(messages)) = messages
            /\ LET new == r.messages[Len(r.messages)] IN
               /\ new.sessionId = body.sessionId
               /\ new.content = body.content
               /\ new.senderId = sessions[sid]
               /\ new.senderRole = ResolvedRole(sessions[sid])

\* C23: the list of the messages of a session holds every stored message of
\* that session once and no other message, with creation times that never
\* decrease along the list; the rows GET /api/chats/messages/:sessionId
\* answers with are the rows of that list.
C23_ListOldestFirst ==
    \A s \in 1..ListChats :
        /\ listMessages(s) # {}
        /\ \A l \in listMessages(s) :
              /\ {l[i] : i \in DOMAIN l} =
                    {m \in DOMAIN messages : messages[m].sessionId = s}
              /\ \A i \in DOMAIN l, j \in DOMAIN l :
                    i < j => /\ l[i] # l[j]
                             /\ messages[l[i]].createdAt
                                   <= messages[l[j]].createdAt
              /\ \A sid \in DOMAIN sessions :
                    getMessages(sid, s).code = 200 =>
                        getMessages(sid, s).out =
                            {messages[l[i]] : i \in DOMAIN l}

\* The messages of a session were just listed: two of them, created at
\* different times, while the other session has a message created between
\* the two.
C23_Witness ==
    /\ last.op = "getMessages" /\ last.code = 200
    /\ \E s \in DOMAIN chatSessions, t \in DOMAIN chatSessions :
          /\ s # t
          /\ \E a \in getMessagesBySession(s), b \in getMessagesBySession(s),
                c \in getMessagesBySession(t) :
                /\ messages[a].createdAt < messages[c].createdAt
                /\ messages[c].createdAt < messages[b].createdAt

\* Some stored account has the address.
Stored(email) == \E u \in DOMAIN users : users[u].email = email

\* C24: no two stored users share an email; a registration or an admin user
\* creation whose email is already stored is answered 400 and creates no
\* user, at the existence check and, when another creation with the same
\* email got in after that check, at the INSERT.
C24_EmailUnique ==
    /\ [](/\ \A u \in DOMAIN users, v \in DOMAIN users :
                u # v => users[u].email # users[v].email
          /\ \A sid \in DOMAIN sessions, email \in Emails \cup NewEmails :
                Stored(email) =>
                    /\ \A password \in Passwords \cup {Null} :
                          LET r == register(sid, email, password) IN
                          r.code = 400 /\ r.users = users
                    /\ IsAdmin(sid) =>
                          \A body \in UserBodies :
                              body.email = email =>
                                  LET r == postUser(sid, body) IN
                                  r.code = 400 /\ r.users = users)
    /\ [][\A p \in creating \ creating' :
             (p.id = Null /\ Stored(p.user.email)) =>
                 /\ users' = users
                 /\ last'.op = p.op /\ last'.code = 400]_vars

\* Two creations with the same new address both passed the existence
\* check; one account with the address is stored and the other request was
\* just answered 400 at its INSERT.
C24_Witness ==
    /\ creating = {}
    /\ last.code = 400 /\ last.msg = "Unique"
    /\ Cardinality({u \in DOMAIN users : users[u].email = NewEmail}) = 1
    /\ Cardinality(DOMAIN users) = MaxUsers + 1

\* The statuses the transition table leads to from a status of S in at most
\* one step.
Successors(S) ==
    S \cup {t[2] : t \in {x \in TransitionTable : x[1] \in S}}

\* The statuses reachable from a status along the transition table.
ReachableFrom(status) == Successors(Successors(Successors({status})))

\* C25: whatever the interleaving of status updates, a write that changes
\* the stored status of an alert changes it to a status reachable from the
\* stored one along the transition table.
C25_StatusMovesForward ==
    [][\A id \in DOMAIN alerts :
          alerts'[id].status \in ReachableFrom(alerts[id].status)]_vars

\* C26: at the step that registers a socket under user u, some session of
\* the store still carries u and the account of u is still stored, whatever
\* logout or deletion ran since the upgrade looked them up.
C26_AuthenticatedWhenRegistered ==
    [][\A c \in DOMAIN readyState, u \in AnyUserId \cup DOMAIN clients' :
          NewlyRegistered(c, u) =>
              /\ \E sid \in DOMAIN sessions : sessions[sid] = u
              /\ u \in DOMAIN users]_vars

\* The step is the opening of a connection: one closed socket becomes open
\* and is added to the registry, and nothing else changes.
ConnectionOpens ==
    \E c \in DOMAIN readyState, u \in AnyUserId :
        /\ readyState[c] = "CLOSED" /\ readyState'[c] = "OPEN"
        /\ clients' = registerConnection(u, c)
        /\ UNCHANGED <<tables, last>>

\* The step is the 'close' event of a registered socket.
ConnectionCloses ==
    \E u \in DOMAIN clients :
        \E c \in clients[u] :
            /\ clients' = unregisterConnection(u, c)
            /\ readyState'[c] = "CLOSED"
            /\ UNCHANGED <<tables, last>>

\* C27: a step that changes the registry is the opening or the closing of a
\* connection; a step that answers a request or writes a table (login,
\* logout, registration, alert and chat requests with their pushes, admin
\* creation and deletion) leaves the registry as it was; and a push to a
\* user reaches every open socket registered under that user, whether or
\* not a session still carries the user or the account is still stored.
C27_RegistryChangedByOpenClose ==
    /\ [](\A u \in DOMAIN clients :
            \A c \in clients[u] :
                readyState[c] = "OPEN" =>
                    /\ c \in broadcastToUser(u)
                    /\ broadcast(<<u>>, NoEvent).count[c] = 1)
    /\ [][/\ clients' # clients => ConnectionOpens \/ ConnectionCloses
          /\ (tables' # tables \/ last' # last) => clients' = clients]_vars

\* An account was just deleted whose socket is still open and registered,
\* and no session carries the deleted user.
C27_Witness ==
    /\ last.op = "deleteUser" /\ last.code = 200
    /\ \E u \in DOMAIN clients :
          /\ u \notin DOMAIN users
          /\ \A sid \in DOMAIN sessions : sessions[sid] # u
          /\ \E c \in clients[u] :
                readyState[c] = "OPEN" /\ c \in broadcastToUser(u)

\* The audit log entries with the action and the target.
Entries(action, id) ==
    {l \in DOMAIN auditLogs :
        auditLogs[l].action = action /\ auditLogs[l].targetId = id}

\* Every id an account has had.
EverUsers == UserIds \cup DOMAIN users \cup 1..(freshUserId - 1)

\* C28: the audit log only grows at its end; an entry is appended only by a
\* request that created or deleted a user, and names the admin who sent it;
\* and once no admin creation is under way every account added to the
\* seeded ones has exactly one create_user entry and every account that is
\* gone exactly one delete_user entry.
C28_AuditLogComplete ==
    /\ [](creating = {} =>
            \A id \in EverUsers :
                /\ (id \in DOMAIN users \ UserIds
                    \/ (id \notin UserIds /\ id \notin DOMAIN users))
                      => Cardinality(Entries("create_user", id)) = 1
                /\ id \notin DOMAIN users
                      => Cardinality(Entries("delete_user", id)) = 1
                /\ id \in DOMAIN users
                      => Entries("delete_user", id) = {}
                /\ id \in UserIds => Entries("create_user", id) = {})
    /\ [][/\ Len(auditLogs') >= Len(auditLogs)
          /\ SubSeq(auditLogs', 1, Len(auditLogs)) = auditLogs
          /\ Len(auditLogs') <= Len(auditLogs) + 1
          /\ auditLogs' # auditLogs =>
                LET entry == auditLogs'[Len(auditLogs')] IN
                \/ /\ entry.action = "delete_user"
                   /\ entry.targetId \in DOMAIN users \ DOMAIN users'
                   /\ \E sid \in DOMAIN sessions :
                         IsAdmin(sid) /\ entry.userId = sessions[sid]
                \/ /\ entry.action = "create_user"
                   /\ \E p \in creating \ creating' :
                         p.id = entry.targetId /\ p.actor = entry.userId]_vars

\* C29: every stored alert has the stamps of its status: resolved has
\* resolvedAt, dispatched has dispatchedAt, acknowledged has acknowledgedAt
\* and acknowledgedBy, and only a resolved alert has resolvedAt.
C29_StampsAgreeWithStatus ==
    \A id \in DOMAIN alerts :
        LET alert == alerts[id] IN
        /\ alert.status = "resolved" => alert.resolvedAt # Null
        /\ alert.status = "dispatched" => alert.dispatchedAt # Null
        /\ alert.status = "acknowledged" =>
              alert.acknowledgedAt # Null /\ alert.acknowledgedBy # Null
        /\ alert.resolvedAt # Null => alert.status = "resolved"

\* ------------------------------------------- sessions and authentication
\* The seeded accounts and an inactive medical staff member created through
\* POST /api/admin/users with isActive false.
authUsers ==
    defaultUsers @@
    (NewEmail :> [User(NewEmail, 1, "staff", "medical")
                     EXCEPT !.isActive = FALSE])

InitAuth ==
    /\ users = authUsers
    /\ sessions = [s \in 1..NumSessions |-> Null]
    /\ alerts = <<>>
    /\ chatSessions = <<>>
    /\ messages = <<>>
    /\ auditLogs = <<>>
    /\ clients = <<>>
    /\ readyState = [c \in 1..MaxConns |-> "CLOSED"]
    /\ now = 1
    /\ upgrade = [c \in 1..MaxConns |-> Null]
    /\ admitted = {}
    /\ posting = {}
    /\ creating = {}
    /\ patching = {}
    /\ last = [op |-> "none", code |-> 0, msg |-> ""]

\* Logins, logouts, registrations and account deletions of two browsers,
\* with gated requests in between.
NextAuth ==
    \/ Login
    \/ Logout
    \/ Me
    \/ RegisterCheck
    \/ CreateUser
    \/ DeleteUser
    \/ GetMyAlerts

SpecAuth == InitAuth /\ [][NextAuth]_vars

\* The accounts a login with these credentials authenticates: the address is
\* stored, the password matches the stored hash, the account is active.
Authenticates(email, password) ==
    {u \in DOMAIN users :
        /\ users[u].email = email
        /\ users[u].password = Hash(password)
        /\ users[u].isActive}

\* A login sets the userId of its session exactly when it succeeds, to the
\* account of its credentials; any other attempt leaves every session as it
\* was and is refused.
LoginSetsOnSuccessOnly ==
    \A sid \in DOMAIN sessions, email \in Emails \cup {Null},
       password \in Passwords \cup {Null} :
        LET r == login(sid, email, password) IN
        IF email # Null /\ password # Null
           /\ Authenticates(email, password) # {}
        THEN /\ r.code = 200
             /\ \E u \in Authenticates(email, password) :
                    r.sessions = [sessions EXCEPT ![sid] = u]
        ELSE /\ r.code \in {400, 401, 403}
             /\ r.sessions = sessions

\* A session without a userId is answered 401 by every gated route, over
\* every input, and by /api/auth/me; logout leaves its session without one.
LoggedOutIsRefused ==
    \A sid \in DOMAIN sessions :
        /\ logout(sid).sessions = [sessions EXCEPT ![sid] = Null]
        /\ sessions[sid] = Null =>
              /\ me(sid).code = 401
              /\ \A r \in BehindAuth(sid) \cup BehindStaff(sid)
                             \cup BehindAdmin(sid) : r.code = 401

\* The userId of session sid changes in this step.
SessionChanges(sid) == sessions'[sid] # sessions[sid]

====
